---- MODULE Spec2Model ----
(***************************************************************************)
(* Perfect nested sampling (PerfectNS): the standard driver                *)
(* generate_standard_run, the dynamic driver generate_dynamic_run, the     *)
(* single thread generator generate_single_thread / generate_thread_logx   *)
(* and z_importance of PerfectNestedSampling/nested_sampling.py;           *)
(* get_true_estimator_values of PerfectNS/estimators.py; func_on_runs,     *)
(* generate_runs and get_run_data of perfectns/parallelised_wrappers.py.   *)
(*                                                                         *)
(* Number representation.                                                  *)
(*  - logx of a point is an integer <= 0; one draw log(U), U in [0,1), is  *)
(*    a strictly negative integer -1 .. -MaxDraw.                          *)
(*  - logl is an integer count of steps of log(3/2):                       *)
(*    exp(logl) = (3/2)^logl.                                              *)
(*  - logx_i is held as the integer nlive*logx_i (so one death subtracts   *)
(*    1), and t = exp(-1/nlive) is the rational (2n-1)/(2n+1).             *)
(*  - the evidences logz_live and logz_dead are held in the linear domain, *)
(*    as exp(value) * ZScale(nlive) * 2^MaxLogl: log is monotone, so a     *)
(*    comparison of two logs is the comparison of these integers, and      *)
(*    -inf is 0.                                                           *)
(*  - NaN and None are the empty tuple; a value v that may be NaN or None  *)
(*    is held as <<v>> (Some(v)).                                          *)
(*  - theta (sample_nsphere_shells) is not carried: no step reads it.      *)
(*  - a run that generate_runs collects is held as the number of the call  *)
(*    of generate_ns_run that made it; a run that func_on_runs is given is *)
(*    held as a number that tells its content.                             *)
(***************************************************************************)
EXTENDS Integers, Sequences, FiniteSets, TLC

\* ------------------------------------------------------------------ bounds
MaxNlive == 2
MaxDraw == 2
MaxDepth == 4
MaxLogl == 4
MaxDead == 4
MaxSamples == 4
MaxPoints == 3
MaxWeight == 2
MaxEstimators == 2
MaxRepeat == 2
MaxWorkers == 2

NaN == <<>>
None == <<>>
Some(v) == <<v>>
Val(o) == o[1]

\* ------------------------------------------------------------ arithmetic
RECURSIVE Pow(_, _)
Pow(b, e) == IF e = 0 THEN 1 ELSE b * Pow(b, e - 1)

RECURSIVE SeqSum(_)
SeqSum(s) == IF s = <<>> THEN 0 ELSE Head(s) + SeqSum(Tail(s))

Min(a, b) == IF a < b THEN a ELSE b

Range(s) == {s[i] : i \in DOMAIN s}

\* np.exp on a log-likelihood, times 2^MaxLogl
Exp(logl) == Pow(3, logl) * Pow(2, MaxLogl - logl)

\* t = np.exp(-1.0 / nlive_const), as the rational TNum/TDen
TNum(n) == 2 * n - 1
TDen(n) == 2 * n + 1

\* exp(logx_i) * TDen^MaxDead, with logx_i = -k / nlive
ExpLogxI(n, k) == Pow(TNum(n), k) * Pow(TDen(n), MaxDead - k)

\* factor by which the linear evidences are scaled
ZScale(n) == n * Pow(TDen(n), MaxDead) * (4 * n * n - 1)

\* exp(logtrapz) = 0.5 * (1/t - t) = 4n / (4n^2 - 1), times n * (4n^2 - 1)
Trapz(n) == 4 * n * n

\* ----------------------------------------------------- problem interface
r_given_logx(logx) == MaxDepth + logx

logl_given_r(r) == Min(MaxLogl, MaxDepth - r)

\* one live point / sample row from its logx and thread label
Point(logx, label) ==
  [logl |-> logl_given_r(r_given_logx(logx)), r |-> r_given_logx(logx),
   logx |-> logx, label |-> label]

\* scipy.misc.logsumexp(live_points[:, 0]) + logx_i - np.log(nlive_const)
LogzLive(live, lxi, n) ==
  SeqSum([i \in DOMAIN live |-> Exp(live[i].logl)]) * ExpLogxI(n, -lxi)
    * (4 * n * n - 1)

\* live_points[ind, 0] + logtrapz + logx_i
DeadContribution(logl, lxi, n) == Exp(logl) * Trapz(n) * ExpLogxI(n, -lxi)

\* logz_live - np.log(termination_fraction) > logz_dead
Continue(zlive, zdead, tf) == zlive * tf.den > zdead * tf.num

\* mutant: the last of the tied minima is taken
MinInd_last(live) ==
  CHOOSE i \in DOMAIN live :
    /\ \A j \in DOMAIN live : live[i].logl <= live[j].logl
    /\ \A j \in DOMAIN live : live[j].logl = live[i].logl => j <= i

\* np.where(live_points[:, 0] == live_points[:, 0].min())[0][0]
MinInd(live) ==
  CHOOSE i \in DOMAIN live :
    /\ \A j \in DOMAIN live : live[i].logl <= live[j].logl
    /\ \A j \in DOMAIN live : live[j].logl = live[i].logl => i <= j

\* np.argsort on the logl column: the default kind is quicksort, which
\* is not stable, so every ordering that sorts the rows is an outcome.
RECURSIVE SortedOrders(_, _)
SortedOrders(rows, idx) ==
  IF idx = {} THEN {<<>>}
  ELSE UNION {{<<i>> \o rest : rest \in SortedOrders(rows, idx \ {i})} :
              i \in {m \in idx : \A j \in idx : rows[m].logl <= rows[j].logl}}

\* mutant: the rows are left in the order they have
argsort_unsorted(rows) == {[i \in DOMAIN rows |-> i]}

argsort(rows) == SortedOrders(rows, DOMAIN rows)

Take(rows, order) == [i \in DOMAIN order |-> rows[order[i]]]

\* --------------------------------------------------------------- settings
Frac(a, b) == [num |-> a, den |-> b]

FracLess(x, y) == x.num * y.den < y.num * x.den

TerminationFractions == {Frac(1, 2), Frac(9, 10)}

\* settings.dynamic_goal of a dynamic run: inside [0, 1], above and below
DynamicGoals == {Some(Frac(1, 2)), Some(Frac(3, 2)), Some(Frac(-1, 2))}

\* settings.dynamic_fraction: inside (0, 1) and on either end
DynamicFractions == {Frac(1, 2), Frac(0, 1), Frac(1, 1)}

NSamplesMaxValues == {None, Some(MaxSamples)}

\* settings.nbatch as dynamic_results.py sets it (lines 68-71)
NBatchValues == {1, 2}

StandardSettings ==
  {[nlive_const |-> n, ninit |-> 1, termination_fraction |-> tf,
    dynamic_goal |-> None, n_samples_max |-> None, nbatch |-> 1,
    dynamic_fraction |-> Frac(1, 2), logx_terminate |-> None] :
   n \in 1..MaxNlive, tf \in TerminationFractions}

DynamicSettings ==
  {[nlive_const |-> n, ninit |-> ni, termination_fraction |-> Frac(1, 2),
    dynamic_goal |-> g, n_samples_max |-> m, nbatch |-> nb,
    dynamic_fraction |-> f, logx_terminate |-> None] :
   n \in 1..MaxNlive, ni \in 1..MaxNlive, g \in DynamicGoals,
   m \in NSamplesMaxValues, nb \in NBatchValues, f \in DynamicFractions}

Settings == StandardSettings \cup DynamicSettings

\* arguments of a direct call of generate_single_thread
ThreadArgs ==
  [logx_end : {Some(e) : e \in -MaxDepth..0} \cup {None}, thread_label : {1},
   logx_start : -MaxDepth..0, keep_final_point : BOOLEAN]

ThreadSettings ==
  {[nlive_const |-> 1, ninit |-> 1, termination_fraction |-> Frac(1, 2),
    dynamic_goal |-> None, n_samples_max |-> None, nbatch |-> 1,
    dynamic_fraction |-> Frac(1, 2), logx_terminate |-> lt] :
   lt \in {None, Some(1 - MaxDepth)}}

NoRun ==
  [logl |-> <<>>, r |-> <<>>, logx |-> <<>>, thread_labels |-> <<>>,
   nlive_array |-> <<>>, thread_min_max |-> <<>>]

NoArgs ==
  [logx_end |-> None, thread_label |-> 0, logx_start |-> 0,
   keep_final_point |-> TRUE]

VARIABLES
  settings,                \* the PerfectNestedSamplingSettings object
  pc,                      \* position of the driver
  is_dynamic_initial_run,  \* argument of generate_standard_run
  live_points,             \* rows [logl, r, logx, label]
  logx_i, logz_dead, logz_live,
  dead_points_list,
  run,                     \* the run dictionary returned
  error,                   \* the exception that ended the run, or "none"
  samples,                 \* rows [logl, r, logx, label, dnlive]
  thread_min_max,          \* rows <<start logl or NaN, end logl>>
  n_samples, n_samples_max,
  logl_min_max, logx_min_max,
  batch,                   \* threads made in the current for loop
  t_pc,                    \* position inside generate_single_thread
  t_args,                  \* its arguments
  logx_list,               \* the list generate_thread_logx builds
  thread,                  \* what generate_single_thread returned:
                           \* None or Some(rows)
  imp_pc,                  \* position of a call of z_importance
  w_relative,              \* its argument w
  nlive_array,             \* its argument nlive
  imp_z,                   \* the importance it returns
  est_pc,                  \* position of get_true_estimator_values
  estimator_list,          \* its argument
  output,                  \* dict: estimator name -> value
  ordered_cols,            \* list of estimator names
  df,                      \* the data frame returned: <<name, value>>
                           \* per column
  d_pc,                    \* position of get_run_data
  kwargs,                  \* the keyword arguments it was called with
  n_repeat,
  load, overwrite_existing,\* its locals of those names
  data,                    \* its local data: None while unbound
  cache_file,              \* the file data/<save_name>
  saved,                   \* the call of iou.pickle_save made, or None
  g_pc,                    \* position of generate_runs
  futures,                 \* the futures submitted to the pool
  run_list,                \* the list generate_runs builds
  f_pc,                    \* position of func_on_runs
  f_args,                  \* its arguments run_list, estimator_list and
                           \* kwargs
  f_futures,               \* the futures it submitted to its pool
  results_list,            \* the list it builds
  results                  \* what it returned, or None

stdVars == <<live_points, logx_i, logz_dead, logz_live, dead_points_list>>

dynVars == <<samples, thread_min_max, n_samples, n_samples_max,
             logl_min_max, logx_min_max, batch>>

threadVars == <<t_pc, t_args, logx_list, thread>>

driverState == <<settings, pc, is_dynamic_initial_run, stdVars, run,
                 dynVars, threadVars>>

driverVars == <<driverState, error>>

impVars == <<imp_pc, w_relative, nlive_array, imp_z>>

estVars == <<est_pc, estimator_list, output, ordered_cols, df>>

runsVars == <<g_pc, futures, run_list>>

dataVars == <<d_pc, kwargs, n_repeat, load, overwrite_existing, data,
              cache_file, saved>>

funcVars == <<f_pc, f_args, f_futures, results_list, results>>

outerVars == <<impVars, estVars, dataVars, runsVars, funcVars>>

vars == <<driverVars, outerVars>>

\* no call of z_importance is in progress
InitImp ==
  /\ imp_pc = "idle"
  /\ w_relative = <<>>
  /\ nlive_array = <<>>
  /\ imp_z = <<>>

\* an empty dict
EmptyDict == [k \in {} |-> NaN]

\* no call of get_true_estimator_values is in progress
InitEst ==
  /\ est_pc = "idle"
  /\ estimator_list = <<>>
  /\ output = EmptyDict
  /\ ordered_cols = <<>>
  /\ df = <<>>

InitRest ==
  /\ is_dynamic_initial_run = FALSE
  /\ live_points = <<>>
  /\ logx_i = 0
  /\ logz_dead = 0
  /\ logz_live = 0
  /\ dead_points_list = <<>>
  /\ run = NoRun
  /\ error = "none"
  /\ samples = <<>>
  /\ thread_min_max = <<>>
  /\ n_samples = 0
  /\ n_samples_max = Frac(0, 1)
  /\ logl_min_max = <<NaN, 0>>
  /\ logx_min_max = <<0, 0>>
  /\ batch = 0
  /\ logx_list = <<>>
  /\ thread = None

\* kwargs of get_run_data as its defaults set them (lines 161-166)
DefaultKwargs ==
  [parallelise |-> TRUE, max_workers |-> 1, load |-> TRUE, save |-> TRUE,
   overwrite_existing |-> FALSE, check_loaded_settings |-> FALSE]

NoFile == [state |-> "missing", settings_match |-> FALSE, runs |-> <<>>]

\* no call of get_run_data or generate_runs is in progress
InitData ==
  /\ d_pc = "idle"
  /\ kwargs = DefaultKwargs
  /\ n_repeat = 0
  /\ load = TRUE
  /\ overwrite_existing = FALSE
  /\ data = None
  /\ cache_file = NoFile
  /\ saved = None
  /\ g_pc = "idle"
  /\ futures = <<>>
  /\ run_list = <<>>

NoFuncArgs ==
  [run_list |-> <<>>, estimator_list |-> 0, parallelise |-> TRUE,
   max_workers |-> 1, results_as_list |-> FALSE]

\* no call of func_on_runs is in progress
InitFunc ==
  /\ f_pc = "idle"
  /\ f_args = NoFuncArgs
  /\ f_futures = <<>>
  /\ results_list = <<>>
  /\ results = None

\* a call of generate_ns_run(settings)
Init ==
  /\ settings \in Settings
  /\ pc = "start"
  /\ t_pc = "idle"
  /\ t_args = NoArgs
  /\ InitRest
  /\ InitImp
  /\ InitEst
  /\ InitData
  /\ InitFunc

\* a direct call of generate_single_thread(settings, logx_end, ...)
InitThread ==
  /\ settings \in ThreadSettings
  /\ pc = "caller"
  /\ t_pc = "call"
  /\ t_args \in ThreadArgs
  /\ InitRest
  /\ InitImp
  /\ InitEst
  /\ InitData
  /\ InitFunc

\* nlive_const as generate_standard_run reads it (lines 83-86)
NliveConst ==
  IF is_dynamic_initial_run THEN settings.ninit ELSE settings.nlive_const

\* mutant: generate_dynamic_run starts without its assertion
generate_ns_run_noassert ==
  /\ pc = "start"
  /\ pc' = "std_init"
  /\ is_dynamic_initial_run' = (settings.dynamic_goal # None)
  /\ UNCHANGED <<outerVars, settings, stdVars, run, error, dynVars, threadVars>>

\* generate_ns_run (lines 50-53) and the assertion that opens
\* generate_dynamic_run (lines 177-178)
generate_ns_run ==
  /\ pc = "start"
  /\ IF settings.dynamic_goal = None
     THEN /\ pc' = "std_init"
          /\ is_dynamic_initial_run' = FALSE
          /\ error' = error
     ELSE IF /\ ~FracLess(Frac(1, 1), Val(settings.dynamic_goal))
             /\ ~FracLess(Val(settings.dynamic_goal), Frac(0, 1))
          THEN /\ pc' = "std_init"
               /\ is_dynamic_initial_run' = TRUE
               /\ error' = error
          ELSE /\ pc' = "failed"
               /\ is_dynamic_initial_run' = FALSE
               /\ error' = "AssertionError"
  /\ UNCHANGED <<outerVars, settings, stdVars, run, dynVars, threadVars>>

\* generate_standard_run, lines 89-104: sample the live points
StandardInit ==
  /\ pc = "std_init"
  /\ \E us \in [1..NliveConst -> 1..MaxDraw] :
       /\ live_points' = [i \in 1..NliveConst |-> Point(-us[i], i)]
       /\ logz_live' = LogzLive(live_points', 0, NliveConst)
  /\ logx_i' = 0
  /\ logz_dead' = 0
  /\ dead_points_list' = <<>>
  /\ pc' = "std_loop"
  /\ UNCHANGED <<outerVars, settings, is_dynamic_initial_run, run, error, dynVars,
                 threadVars>>

\* mutant: logz_live is recomputed before the dying point is replaced
StandardStep_stale ==
  /\ pc = "std_loop"
  /\ Continue(logz_live, logz_dead, settings.termination_fraction)
  /\ -logx_i < MaxDead
  /\ LET ind == MinInd(live_points)
         n == NliveConst
     IN /\ dead_points_list' = Append(dead_points_list, live_points[ind])
        /\ logx_i' = logx_i - 1
        /\ logz_dead' = logz_dead
                          + DeadContribution(live_points[ind].logl, logx_i', n)
        /\ \E u \in 1..MaxDraw :
             /\ live_points[ind].logx - u >= -MaxDepth
             /\ live_points' =
                  [live_points EXCEPT
                     ![ind] = Point(live_points[ind].logx - u,
                                    live_points[ind].label)]
        /\ logz_live' = LogzLive(live_points, logx_i', n)
  /\ UNCHANGED <<outerVars, settings, pc, is_dynamic_initial_run, run, error, dynVars,
                 threadVars>>

\* mutant: the dead evidence is updated before logx_i is decremented
StandardStep_latepointer ==
  /\ pc = "std_loop"
  /\ Continue(logz_live, logz_dead, settings.termination_fraction)
  /\ -logx_i < MaxDead
  /\ LET ind == MinInd(live_points)
         n == NliveConst
     IN /\ dead_points_list' = Append(dead_points_list, live_points[ind])
        /\ logx_i' = logx_i - 1
        /\ logz_dead' = logz_dead
                          + DeadContribution(live_points[ind].logl, logx_i, n)
        /\ \E u \in 1..MaxDraw :
             /\ live_points[ind].logx - u >= -MaxDepth
             /\ live_points' =
                  [live_points EXCEPT
                     ![ind] = Point(live_points[ind].logx - u,
                                    live_points[ind].label)]
        /\ logz_live' = LogzLive(live_points', logx_i', n)
  /\ UNCHANGED <<outerVars, settings, pc, is_dynamic_initial_run, run, error, dynVars,
                 threadVars>>

\* generate_standard_run, lines 105-118: one pass of the while loop
StandardStep ==
  /\ pc = "std_loop"
  /\ Continue(logz_live, logz_dead, settings.termination_fraction)
  /\ -logx_i < MaxDead
  /\ LET ind == MinInd(live_points)
         n == NliveConst
     IN /\ dead_points_list' = Append(dead_points_list, live_points[ind])
        /\ logx_i' = logx_i - 1
        /\ logz_dead' = logz_dead
                          + DeadContribution(live_points[ind].logl, logx_i', n)
        /\ \E u \in 1..MaxDraw :
             /\ live_points[ind].logx - u >= -MaxDepth
             /\ live_points' =
                  [live_points EXCEPT
                     ![ind] = Point(live_points[ind].logx - u,
                                    live_points[ind].label)]
        /\ logz_live' = LogzLive(live_points', logx_i', n)
  /\ UNCHANGED <<outerVars, settings, pc, is_dynamic_initial_run, run, error, dynVars,
                 threadVars>>

\* mutant: the loop over the final live points stops one short
NliveArray_short(npoints, n) ==
  [i \in 1..npoints |->
     IF \E j \in 1..(n - 2) : i = npoints + 1 - j
     THEN npoints + 1 - i ELSE n]

\* mutant: the loop over the final live points is left out
NliveArray_flat(npoints, n) == [i \in 1..npoints |-> n]

\* run['nlive_array'], lines 135-137
NliveArray(npoints, n) ==
  [i \in 1..npoints |->
     IF \E j \in 1..(n - 1) : i = npoints + 1 - j
     THEN npoints + 1 - i ELSE n]

\* mutant: thread_min_max ends are read from the sorted live points
StandardRun_sortedends(dead, live, order, n) ==
  LET points == dead \o Take(live, order)
  IN [logl |-> [i \in DOMAIN points |-> points[i].logl],
      r |-> [i \in DOMAIN points |-> points[i].r],
      logx |-> [i \in DOMAIN points |-> points[i].logx],
      thread_labels |-> [i \in DOMAIN points |-> points[i].label],
      nlive_array |-> NliveArray(Len(points), n),
      thread_min_max |-> [i \in 1..n |-> <<NaN, live[order[i]].logl>>]]

\* generate_standard_run, lines 119-143: assemble the run dictionary
StandardRun(dead, live, order, n) ==
  LET points == dead \o Take(live, order)
  IN [logl |-> [i \in DOMAIN points |-> points[i].logl],
      r |-> [i \in DOMAIN points |-> points[i].r],
      logx |-> [i \in DOMAIN points |-> points[i].logx],
      thread_labels |-> [i \in DOMAIN points |-> points[i].label],
      nlive_array |-> NliveArray(Len(points), n),
      thread_min_max |-> [i \in 1..n |-> <<NaN, live[i].logl>>]]

\* generate_standard_run, lines 119-143; the initial run of a dynamic run
\* returns into generate_dynamic_run (line 182)
StandardReturn ==
  /\ pc = "std_loop"
  /\ ~Continue(logz_live, logz_dead, settings.termination_fraction)
  /\ run' \in {StandardRun(dead_points_list, live_points, order, NliveConst) :
                order \in argsort(live_points)}
  /\ pc' = IF is_dynamic_initial_run THEN "dyn_setup" ELSE "returned"
  /\ UNCHANGED <<outerVars, settings, is_dynamic_initial_run, stdVars, error, dynVars,
                 threadVars>>

\* ------------------------------------------------------- thread generator
Last(s) == s[Len(s)]

Front(s) == SubSeq(s, 1, Len(s) - 1)

\* mutant: the assertion lets logx_start = logx_end through
ThreadCall_weak ==
  /\ t_pc = "call"
  /\ LET logx_end == IF t_args.logx_end = None THEN settings.logx_terminate
                     ELSE t_args.logx_end
     IN IF logx_end = None
        THEN /\ t_pc' = "failed"
             /\ pc' = "failed"
             /\ error' = "TypeError"
             /\ t_args' = t_args
        ELSE IF t_args.logx_start >= Val(logx_end)
        THEN /\ t_pc' = "first"
             /\ pc' = pc
             /\ error' = error
             /\ t_args' = [t_args EXCEPT !.logx_end = logx_end]
        ELSE /\ t_pc' = "failed"
             /\ pc' = "failed"
             /\ error' = "AssertionError: generate_single_thread"
             /\ t_args' = [t_args EXCEPT !.logx_end = logx_end]
  /\ UNCHANGED <<outerVars, settings, is_dynamic_initial_run, stdVars, run, dynVars,
                 logx_list, thread>>

\* generate_single_thread, lines 254-257: default logx_end, then the
\* assertion logx_start > logx_end; an exception leaves the caller too
ThreadCall ==
  /\ t_pc = "call"
  /\ LET logx_end == IF t_args.logx_end = None THEN settings.logx_terminate
                     ELSE t_args.logx_end
     IN IF logx_end = None
        THEN /\ t_pc' = "failed"
             /\ pc' = "failed"
             /\ error' = "TypeError"
             /\ t_args' = t_args
        ELSE IF t_args.logx_start > Val(logx_end)
        THEN /\ t_pc' = "first"
             /\ pc' = pc
             /\ error' = error
             /\ t_args' = [t_args EXCEPT !.logx_end = logx_end]
        ELSE /\ t_pc' = "failed"
             /\ pc' = "failed"
             /\ error' = "AssertionError: generate_single_thread"
             /\ t_args' = [t_args EXCEPT !.logx_end = logx_end]
  /\ UNCHANGED <<outerVars, settings, is_dynamic_initial_run, stdVars, run, dynVars,
                 logx_list, thread>>

\* generate_thread_logx, line 239
ThreadFirstDraw ==
  /\ t_pc = "first"
  /\ \E u \in 1..MaxDraw :
       /\ t_args.logx_start - u >= -MaxDepth
       /\ logx_list' = <<t_args.logx_start - u>>
  /\ t_pc' = "loop"
  /\ UNCHANGED <<outerVars, settings, pc, is_dynamic_initial_run, stdVars, run, error,
                 dynVars, t_args, thread>>

\* generate_thread_logx, lines 240-241
ThreadDraw ==
  /\ t_pc = "loop"
  /\ Last(logx_list) > Val(t_args.logx_end)
  /\ \E u \in 1..MaxDraw :
       /\ Last(logx_list) - u >= -MaxDepth
       /\ logx_list' = Append(logx_list, Last(logx_list) - u)
  /\ UNCHANGED <<outerVars, settings, pc, is_dynamic_initial_run, stdVars, run, error,
                 dynVars, t_pc, t_args, thread>>

\* mutant: the test for an empty list is left out
ThreadRows_notest(lst, label) ==
  Some([i \in DOMAIN lst |->
          [logl |-> logl_given_r(r_given_logx(lst[i])),
           r |-> r_given_logx(lst[i]), logx |-> lst[i], label |-> label,
           dnlive |-> IF i = Len(lst) THEN -1 ELSE 0]])

\* mutant: the death of the thread is marked on its first row as well
ThreadRows_twodeaths(lst, label) ==
  IF lst = <<>> THEN None
  ELSE Some([i \in DOMAIN lst |->
               [logl |-> logl_given_r(r_given_logx(lst[i])),
                r |-> r_given_logx(lst[i]), logx |-> lst[i], label |-> label,
                dnlive |-> IF i = Len(lst) \/ i = 1 THEN -1 ELSE 0]])

\* generate_single_thread, lines 260-273: None for an empty list, else the
\* array of the thread's rows, with change in nlive -1 on the last row
ThreadRows(lst, label) ==
  IF lst = <<>> THEN None
  ELSE Some([i \in DOMAIN lst |->
               [logl |-> logl_given_r(r_given_logx(lst[i])),
                r |-> r_given_logx(lst[i]), logx |-> lst[i], label |-> label,
                dnlive |-> IF i = Len(lst) THEN -1 ELSE 0]])

\* mutant: the final point is removed when it should be kept
KeptList_swapped(lst, keep_final_point) ==
  IF keep_final_point THEN Front(lst) ELSE lst

\* generate_thread_logx, lines 242-244
KeptList(lst, keep_final_point) ==
  IF keep_final_point THEN lst ELSE Front(lst)

\* generate_thread_logx lines 242-244, generate_single_thread lines 260-273
ThreadReturn ==
  /\ t_pc = "loop"
  /\ ~(Last(logx_list) > Val(t_args.logx_end))
  /\ logx_list' = KeptList(logx_list, t_args.keep_final_point)
  /\ thread' = ThreadRows(logx_list', t_args.thread_label)
  /\ t_pc' = "returned"
  /\ UNCHANGED <<outerVars, settings, pc, is_dynamic_initial_run, stdVars, run, error,
                 dynVars, t_args>>

NextThread ==
  \/ ThreadCall
  \/ ThreadFirstDraw
  \/ ThreadDraw
  \/ ThreadReturn

SpecThread == InitThread /\ [][NextThread]_vars

\* --------------------------------------------------------- dynamic driver
\* au.samples_array_given_run: the change in nlive column of a standard
\* run is -1 on the last row of every thread and 0 elsewhere
samples_array_given_run(rn) ==
  [i \in DOMAIN rn.logl |->
     [logl |-> rn.logl[i], r |-> rn.r[i], logx |-> rn.logx[i],
      label |-> rn.thread_labels[i],
      dnlive |-> IF \E j \in DOMAIN rn.logl :
                      j > i /\ rn.thread_labels[j] = rn.thread_labels[i]
                 THEN 0 ELSE -1]]

\* number of threads which sample from the entire prior
NlivePrior(tmm) == Cardinality({t \in DOMAIN tmm : tmm[t][1] = NaN})

\* nlive from the changes in nlive: the change recorded on a row takes
\* effect after that row
RECURSIVE NliveFromChanges(_, _, _)
NliveFromChanges(smp, tmm, i) ==
  IF i = 1 THEN NlivePrior(tmm)
  ELSE NliveFromChanges(smp, tmm, i - 1) + smp[i - 1].dnlive

\* au.dict_given_samples_array
dict_given_samples_array(smp, tmm) ==
  [logl |-> [i \in DOMAIN smp |-> smp[i].logl],
   r |-> [i \in DOMAIN smp |-> smp[i].r],
   logx |-> [i \in DOMAIN smp |-> smp[i].logx],
   thread_labels |-> [i \in DOMAIN smp |-> smp[i].label],
   nlive_array |-> [i \in DOMAIN smp |-> NliveFromChanges(smp, tmm, i)],
   thread_min_max |-> tmm]

\* point_importance returns importances scaled to a maximum of 1 (lines
\* 291-301): every such vector over ImportanceValues
ImportanceValues == {Frac(0, 1), Frac(1, 1)}

point_importance(smp) ==
  {imp \in [DOMAIN smp -> ImportanceValues] :
     \E i \in DOMAIN smp : imp[i] = Frac(1, 1)}

SetMin(S) == CHOOSE x \in S : \A y \in S : x <= y

SetMax(S) == CHOOSE x \in S : \A y \in S : x >= y

\* np.where(samples[:, 0] == logl)[0]
Where(smp, logl) == {i \in DOMAIN smp : smp[i].logl = logl}

MMResult(err, lmin, lmax, xmin, xmax) ==
  [err |-> err, logl_min_max |-> <<lmin, lmax>>,
   logx_min_max |-> <<xmin, xmax>>]

\* mutant: the thread starts from the first high-importance row itself
min_max_importance_first(importance, smp, stg) ==
  LET H == {i \in DOMAIN smp :
              FracLess(stg.dynamic_fraction, importance[i])}
      first == SetMin(H)
      last == SetMax(H)
      logl_min == IF first = 1 THEN NaN ELSE Some(smp[first].logl)
      ind_min == IF first = 1 THEN {} ELSE Where(smp, smp[first].logl)
      logx_min == IF first = 1 THEN 0 ELSE smp[SetMin(ind_min)].logx
      logl_max == IF last = Len(smp) THEN smp[Len(smp)].logl
                  ELSE smp[last + 1].logl
      ind_max == IF last = Len(smp) THEN {} ELSE Where(smp, logl_max)
      logx_max == IF last = Len(smp) THEN smp[Len(smp)].logx
                  ELSE smp[SetMin(ind_max)].logx
  IN IF ~(/\ FracLess(Frac(0, 1), stg.dynamic_fraction)
          /\ FracLess(stg.dynamic_fraction, Frac(1, 1)))
     THEN MMResult("AssertionError: dynamic_fraction", NaN, 0, 0, 0)
     ELSE IF H = {}
     THEN MMResult("IndexError", NaN, 0, 0, 0)
     ELSE IF first # 1 /\ Cardinality(ind_min) # 1
     THEN MMResult("AssertionError: logl_min", NaN, 0, 0, 0)
     ELSE IF last # Len(smp) /\ Cardinality(ind_max) # 1
     THEN MMResult("AssertionError: logl_max", NaN, 0, 0, 0)
     ELSE MMResult("none", logl_min, logl_max, logx_min, logx_max)

\* mutant: the lookup of logl_max is not asserted to be unique
min_max_importance_nomaxcheck(importance, smp, stg) ==
  LET H == {i \in DOMAIN smp :
              FracLess(stg.dynamic_fraction, importance[i])}
      first == SetMin(H)
      last == SetMax(H)
      logl_min == IF first = 1 THEN NaN ELSE Some(smp[first - 1].logl)
      ind_min == IF first = 1 THEN {} ELSE Where(smp, smp[first - 1].logl)
      logx_min == IF first = 1 THEN 0 ELSE smp[SetMin(ind_min)].logx
      logl_max == IF last = Len(smp) THEN smp[Len(smp)].logl
                  ELSE smp[last + 1].logl
      ind_max == IF last = Len(smp) THEN {} ELSE Where(smp, logl_max)
      logx_max == IF last = Len(smp) THEN smp[Len(smp)].logx
                  ELSE smp[SetMin(ind_max)].logx
  IN IF ~(/\ FracLess(Frac(0, 1), stg.dynamic_fraction)
          /\ FracLess(stg.dynamic_fraction, Frac(1, 1)))
     THEN MMResult("AssertionError: dynamic_fraction", NaN, 0, 0, 0)
     ELSE IF H = {}
     THEN MMResult("IndexError", NaN, 0, 0, 0)
     ELSE IF first # 1 /\ Cardinality(ind_min) # 1
     THEN MMResult("AssertionError: logl_min", NaN, 0, 0, 0)
     ELSE MMResult("none", logl_min, logl_max, logx_min, logx_max)

\* min_max_importance, lines 344-381
min_max_importance(importance, smp, stg) ==
  LET H == {i \in DOMAIN smp :
              FracLess(stg.dynamic_fraction, importance[i])}
      first == SetMin(H)
      last == SetMax(H)
      logl_min == IF first = 1 THEN NaN ELSE Some(smp[first - 1].logl)
      ind_min == IF first = 1 THEN {} ELSE Where(smp, smp[first - 1].logl)
      logx_min == IF first = 1 THEN 0 ELSE smp[SetMin(ind_min)].logx
      logl_max == IF last = Len(smp) THEN smp[Len(smp)].logl
                  ELSE smp[last + 1].logl
      ind_max == IF last = Len(smp) THEN {} ELSE Where(smp, logl_max)
      logx_max == IF last = Len(smp) THEN smp[Len(smp)].logx
                  ELSE smp[SetMin(ind_max)].logx
  IN IF ~(/\ FracLess(Frac(0, 1), stg.dynamic_fraction)
          /\ FracLess(stg.dynamic_fraction, Frac(1, 1)))
     THEN MMResult("AssertionError: dynamic_fraction", NaN, 0, 0, 0)
     ELSE IF H = {}
     THEN MMResult("IndexError", NaN, 0, 0, 0)
     ELSE IF first # 1 /\ Cardinality(ind_min) # 1
     THEN MMResult("AssertionError: logl_min", NaN, 0, 0, 0)
     ELSE IF last # Len(smp) /\ Cardinality(ind_max) # 1
     THEN MMResult("AssertionError: logl_max", NaN, 0, 0, 0)
     ELSE MMResult("none", logl_min, logl_max, logx_min, logx_max)

\* generate_dynamic_run, lines 185-193
DynamicSetup ==
  /\ pc = "dyn_setup"
  /\ samples' = samples_array_given_run(run)
  /\ thread_min_max' = run.thread_min_max
  /\ n_samples' = Len(samples')
  /\ n_samples_max' =
       IF settings.n_samples_max = None
       THEN Frac(n_samples' * settings.nlive_const, settings.ninit)
       ELSE Frac(Val(settings.n_samples_max), 1)
  /\ pc' = "dyn_loop"
  /\ UNCHANGED <<outerVars, settings, is_dynamic_initial_run, stdVars, run, error,
                 logl_min_max, logx_min_max, batch, threadVars>>

\* generate_dynamic_run, lines 196-200: the loop test, point_importance
\* and min_max_importance
DynamicIteration ==
  /\ pc = "dyn_loop"
  /\ FracLess(Frac(n_samples, 1), n_samples_max)
  /\ n_samples <= MaxSamples
  /\ \E res \in {min_max_importance(importance, samples, settings) :
                  importance \in point_importance(samples)} :
          IF res.err = "none"
          THEN /\ logl_min_max' = res.logl_min_max
               /\ logx_min_max' = res.logx_min_max
               /\ pc' = "dyn_batch"
               /\ error' = error
          ELSE /\ UNCHANGED <<logl_min_max, logx_min_max>>
               /\ pc' = "failed"
               /\ error' = res.err
  /\ batch' = 0
  /\ UNCHANGED <<outerVars, settings, is_dynamic_initial_run, stdVars, run, samples,
                 thread_min_max, n_samples, n_samples_max, threadVars>>

\* mutant: the new thread is given the label of the newest thread
DynamicCallThread_samelabel ==
  /\ pc = "dyn_batch"
  /\ batch < settings.nbatch
  /\ Len(samples) <= MaxSamples
  /\ t_args' = [logx_end |-> Some(logx_min_max[2]),
                thread_label |-> Len(thread_min_max),
                logx_start |-> logx_min_max[1],
                keep_final_point |-> TRUE]
  /\ t_pc' = "call"
  /\ logx_list' = <<>>
  /\ thread' = None
  /\ pc' = "dyn_thread"
  /\ UNCHANGED <<outerVars, settings, is_dynamic_initial_run, stdVars, run, error,
                 dynVars>>

\* generate_dynamic_run, lines 201-208: call generate_single_thread
DynamicCallThread ==
  /\ pc = "dyn_batch"
  /\ batch < settings.nbatch
  /\ Len(samples) <= MaxSamples
  /\ t_args' = [logx_end |-> Some(logx_min_max[2]),
                thread_label |-> Len(thread_min_max) + 1,
                logx_start |-> logx_min_max[1],
                keep_final_point |-> TRUE]
  /\ t_pc' = "call"
  /\ logx_list' = <<>>
  /\ thread' = None
  /\ pc' = "dyn_thread"
  /\ UNCHANGED <<outerVars, settings, is_dynamic_initial_run, stdVars, run, error,
                 dynVars>>

\* mutant: the birth of the new thread is not recorded
DynamicInsertThread_nobirth ==
  /\ pc = "dyn_thread"
  /\ t_pc = "returned"
  /\ LET start_ind == IF logl_min_max[1] = NaN THEN {}
                      ELSE Where(samples, Val(logl_min_max[1]))
     IN IF logl_min_max[1] # NaN /\ Cardinality(start_ind) # 1
        THEN /\ pc' = "failed"
             /\ error' = "AssertionError: start_ind"
             /\ UNCHANGED <<samples, thread_min_max, batch>>
        ELSE IF thread = None
        THEN /\ pc' = "failed"
             /\ error' = "ValueError"
             /\ UNCHANGED <<samples, thread_min_max, batch>>
        ELSE /\ samples' = samples \o Val(thread)
             /\ thread_min_max' =
                  Append(thread_min_max,
                         <<logl_min_max[1], Last(Val(thread)).logl>>)
             /\ batch' = batch + 1
             /\ pc' = "dyn_batch"
             /\ error' = error
  /\ t_pc' = "idle"
  /\ UNCHANGED <<outerVars, settings, is_dynamic_initial_run, stdVars, run, n_samples,
                 n_samples_max, logl_min_max, logx_min_max, t_args,
                 logx_list, thread>>

\* generate_dynamic_run, lines 209-218: record the birth, append the
\* thread, extend thread_min_max
DynamicInsertThread ==
  /\ pc = "dyn_thread"
  /\ t_pc = "returned"
  /\ LET start_ind == IF logl_min_max[1] = NaN THEN {}
                      ELSE Where(samples, Val(logl_min_max[1]))
         born == [i \in DOMAIN samples |->
                    IF i \in start_ind
                    THEN [samples[i] EXCEPT !.dnlive = @ + 1]
                    ELSE samples[i]]
     IN IF logl_min_max[1] # NaN /\ Cardinality(start_ind) # 1
        THEN /\ pc' = "failed"
             /\ error' = "AssertionError: start_ind"
             /\ UNCHANGED <<samples, thread_min_max, batch>>
        ELSE IF thread = None
        THEN /\ pc' = "failed"
             /\ error' = "ValueError"
             /\ samples' = born
             /\ UNCHANGED <<thread_min_max, batch>>
        ELSE /\ samples' = born \o Val(thread)
             /\ thread_min_max' =
                  Append(thread_min_max,
                         <<logl_min_max[1], Last(Val(thread)).logl>>)
             /\ batch' = batch + 1
             /\ pc' = "dyn_batch"
             /\ error' = error
  /\ t_pc' = "idle"
  /\ UNCHANGED <<outerVars, settings, is_dynamic_initial_run, stdVars, run, n_samples,
                 n_samples_max, logl_min_max, logx_min_max, t_args,
                 logx_list, thread>>

\* generate_dynamic_run, lines 219-221
DynamicSort ==
  /\ pc = "dyn_batch"
  /\ batch = settings.nbatch
  /\ samples' \in {Take(samples, order) : order \in argsort(samples)}
  /\ n_samples' = Len(samples')
  /\ pc' = "dyn_loop"
  /\ UNCHANGED <<outerVars, settings, is_dynamic_initial_run, stdVars, run, error,
                 thread_min_max, n_samples_max, logl_min_max, logx_min_max,
                 batch, threadVars>>

\* mutant: the run is returned without the loop test
DynamicReturn_early ==
  /\ pc = "dyn_loop"
  /\ run' = dict_given_samples_array(samples, thread_min_max)
  /\ pc' = "returned"
  /\ UNCHANGED <<outerVars, settings, is_dynamic_initial_run, stdVars, error, dynVars,
                 threadVars>>

\* generate_dynamic_run, lines 196 and 222-227
DynamicReturn ==
  /\ pc = "dyn_loop"
  /\ ~FracLess(Frac(n_samples, 1), n_samples_max)
  /\ run' = dict_given_samples_array(samples, thread_min_max)
  /\ pc' = "returned"
  /\ UNCHANGED <<outerVars, settings, is_dynamic_initial_run, stdVars, error, dynVars,
                 threadVars>>

Next ==
  \/ generate_ns_run
  \/ StandardInit
  \/ StandardStep
  \/ StandardReturn
  \/ DynamicSetup
  \/ DynamicIteration
  \/ DynamicCallThread
  \/ ThreadCall
  \/ ThreadFirstDraw
  \/ ThreadDraw
  \/ ThreadReturn
  \/ DynamicInsertThread
  \/ DynamicSort
  \/ DynamicReturn

Spec == Init /\ [][Next]_vars

\* ------------------------------------------------------------ z_importance
\* np.cumsum(w)
cumsum(w) == [i \in DOMAIN w |-> SeqSum(SubSeq(w, 1, i))]

FracEq(x, y) == x.den # 0 /\ y.den # 0 /\ x.num * y.den = y.num * x.den

\* the maximum of an array of quotients
FracMax(s) ==
  CHOOSE x \in Range(s) : \A y \in Range(s) : ~FracLess(x, y)

\* z_importance with exact=False (lines 312-313 and 319-320); a quotient
\* 0 / 0 is numpy's nan and is held as Frac(0, 0)
z_importance(w, nlive) ==
  LET summed == cumsum(w)
      remaining == [i \in DOMAIN w |-> SetMax(Range(summed)) - summed[i]]
      per_live == [i \in DOMAIN w |-> Frac(remaining[i], nlive[i])]
      top == FracMax(per_live)
  IN [i \in DOMAIN w |->
        Frac(per_live[i].num * top.den, per_live[i].den * top.num)]

\* w_relative = np.exp(logw - logw.max()) (line 289): weights in steps of
\* 1 / MaxWeight, the largest of them 1
RelativeWeights(len) ==
  {w \in [1..len -> 0..MaxWeight] : \E i \in 1..len : w[i] = MaxWeight}

\* a call z_importance(w_relative, run_dict['nlive_array']) (line 291)
InitImportance ==
  /\ settings \in StandardSettings
  /\ pc = "caller"
  /\ t_pc = "idle"
  /\ t_args = NoArgs
  /\ InitRest
  /\ InitEst
  /\ InitData
  /\ InitFunc
  /\ imp_pc = "call"
  /\ \E len \in 1..MaxPoints :
       /\ w_relative \in RelativeWeights(len)
       /\ nlive_array \in [1..len -> 1..MaxNlive]
  /\ imp_z = <<>>

ZImportance ==
  /\ imp_pc = "call"
  /\ imp_z' = z_importance(w_relative, nlive_array)
  /\ imp_pc' = "returned"
  /\ UNCHANGED <<funcVars, driverVars, w_relative, nlive_array, estVars, dataVars,
                 runsVars>>

NextImportance == ZImportance

SpecImportance == InitImportance /\ [][NextImportance]_vars

\* ----------------------------------------------------------- estimators.py
\* credible-interval probabilities, in tenths: 0.5 and 0.9
Probabilities == {5, 9}

\* the estimator classes of estimators.py, param_ind = 1
Estimators ==
  [kind : {"logzEstimator", "zEstimator", "nSamplesEstimator",
           "rMeanEstimator", "paramMeanEstimator",
           "paramSquaredMeanEstimator"},
   probability : {0}]
    \cup [kind : {"rCredEstimator", "paramCredEstimator"},
          probability : Probabilities]

\* est.name as the classes set it
name(est) ==
  CASE est.kind = "logzEstimator" -> "logz"
    [] est.kind = "zEstimator" -> "z"
    [] est.kind = "nSamplesEstimator" -> "n_samples"
    [] est.kind = "rMeanEstimator" -> "r"
    [] est.kind = "rCredEstimator" ->
         IF est.probability = 5 THEN "rc_0.5" ELSE "rc_0.9"
    [] est.kind = "paramMeanEstimator" -> "theta1"
    [] est.kind = "paramCredEstimator" ->
         IF est.probability = 5 THEN "Median(theta1)" ELSE "theta1c_0.9"
    [] est.kind = "paramSquaredMeanEstimator" -> "theta1squ"

\* the likelihood and prior of the settings, and whether the optional
\* analytic values of the problem interface are available
EstimatorSettings ==
  [likelihood : {"gaussian", "exp_power"},
   prior : {"gaussian", "gaussian_cached", "uniform"},
   logz_available : BOOLEAN,
   logx_terminate : {None, Some(-MaxDepth)}]

\* outcome of a call: the value returned or the exception raised
Returned(v) == [exc |-> "none", value |-> v]

Raised(e) == [exc |-> e, value |-> NaN]

\* settings.logz_analytic(): the closed-form log evidence, not applicable
\* when the settings have none
logz_analytic(stg) ==
  IF stg.logz_available THEN Returned(<<"logz_analytic", 0>>)
  ELSE Raised("AssertionError")

\* mf.analytic_logx_terminate(settings): None when not set up
analytic_logx_terminate(stg) == stg.logx_terminate

\* check_by_integrating, lines 292-309
check_by_integrating(stg) ==
  IF analytic_logx_terminate(stg) = None THEN Raised("AssertionError")
  ELSE IF logz_analytic(stg).exc # "none" THEN logz_analytic(stg)
  ELSE Returned(<<"quad / exp(logz_analytic)", 0>>)

\* est.analytical(settings) for each class; a class without the method
\* raises AttributeError
analytical(est, stg) ==
  CASE est.kind = "logzEstimator" -> logz_analytic(stg)
    [] est.kind = "zEstimator" ->
         IF logz_analytic(stg).exc # "none" THEN logz_analytic(stg)
         ELSE Returned(<<"exp(logz_analytic)", 0>>)
    [] est.kind = "nSamplesEstimator" -> Raised("AttributeError")
    [] est.kind = "rMeanEstimator" -> Returned(<<"0", 0>>)
    [] est.kind = "rCredEstimator" -> Raised("AttributeError")
    [] est.kind = "paramMeanEstimator" -> Returned(<<"0", 0>>)
    [] est.kind = "paramCredEstimator" ->
         IF est.probability = 5 THEN Returned(<<"0", 0>>)
         ELSE IF stg.likelihood # "gaussian" THEN Raised("AssertionError")
         ELSE IF stg.prior \notin {"gaussian", "gaussian_cached"}
         THEN Raised("AssertionError")
         ELSE Returned(<<"z * sigma", est.probability>>)
    [] est.kind = "paramSquaredMeanEstimator" -> check_by_integrating(stg)

\* output[key] = value
Put(dict, key, value) ==
  [k \in DOMAIN dict \cup {key} |-> IF k = key THEN value ELSE dict[k]]

\* mutant: only AttributeError is caught
Caught_attronly == {"AttributeError"}

\* except (AttributeError, AssertionError), line 285
Caught == {"AttributeError", "AssertionError"}

\* a call get_true_estimator_values(estimator_list, settings)
InitEstimators ==
  /\ settings \in EstimatorSettings
  /\ pc = "caller"
  /\ t_pc = "idle"
  /\ t_args = NoArgs
  /\ InitRest
  /\ InitImp
  /\ InitData
  /\ InitFunc
  /\ est_pc = "loop"
  /\ \E len \in 0..MaxEstimators : estimator_list \in [1..len -> Estimators]
  /\ output = EmptyDict
  /\ ordered_cols = <<>>
  /\ df = <<>>

\* get_true_estimator_values, lines 280-286: one pass of the for loop
TrueValuesLoop ==
  /\ est_pc = "loop"
  /\ Len(ordered_cols) < Len(estimator_list)
  /\ LET est == estimator_list[Len(ordered_cols) + 1]
         res == analytical(est, settings)
     IN /\ ordered_cols' = Append(ordered_cols, name(est))
        /\ IF res.exc = "none"
           THEN /\ output' = Put(output, name(est), res.value)
                /\ UNCHANGED <<est_pc, error>>
           ELSE IF res.exc \in Caught
           THEN /\ output' = Put(output, name(est), NaN)
                /\ UNCHANGED <<est_pc, error>>
           ELSE /\ est_pc' = "failed"
                /\ error' = res.exc
                /\ output' = output
  /\ UNCHANGED <<funcVars, driverState, impVars, estimator_list, df, dataVars,
                 runsVars>>

\* get_true_estimator_values, lines 287-289: the one-row data frame with
\* its columns in the order of ordered_cols
TrueValuesReturn ==
  /\ est_pc = "loop"
  /\ Len(ordered_cols) = Len(estimator_list)
  /\ df' = [i \in DOMAIN ordered_cols |->
              <<ordered_cols[i], output[ordered_cols[i]]>>]
  /\ est_pc' = "returned"
  /\ UNCHANGED <<funcVars, driverVars, impVars, estimator_list, output, ordered_cols,
                 dataVars, runsVars>>

NextEstimators ==
  \/ TrueValuesLoop
  \/ TrueValuesReturn

SpecEstimators == InitEstimators /\ [][NextEstimators]_vars

\* ------------------------------------------------ parallelised_wrappers.py
\* the file data/<save_name>: missing, cut short, or a pickled list of
\* n runs whose settings equal the current settings or not
CacheFiles(n) ==
  {NoFile, [state |-> "truncated", settings_match |-> FALSE, runs |-> <<>>]}
    \cup {[state |-> "ok", settings_match |-> m,
           runs |-> [i \in 1..n |-> 100 + i]] : m \in BOOLEAN}

\* a call get_run_data(settings, n_repeat, **kwargs)
InitWrappers ==
  /\ settings \in StandardSettings
  /\ pc = "caller"
  /\ t_pc = "idle"
  /\ t_args = NoArgs
  /\ InitRest
  /\ InitImp
  /\ InitEst
  /\ d_pc = "start"
  /\ kwargs \in [parallelise : BOOLEAN, max_workers : 1..MaxWorkers,
                  load : BOOLEAN, save : BOOLEAN,
                  overwrite_existing : BOOLEAN,
                  check_loaded_settings : BOOLEAN]
  /\ n_repeat \in 0..MaxRepeat
  /\ load = kwargs.load
  /\ overwrite_existing = kwargs.overwrite_existing
  /\ data = None
  /\ cache_file \in CacheFiles(n_repeat)
  /\ saved = None
  /\ g_pc = "idle"
  /\ futures = <<>>
  /\ run_list = <<>>
  /\ InitFunc

\* get_run_data, lines 170-181: try iou.pickle_load(save_name)
GetRunDataLoad ==
  /\ d_pc = "start"
  /\ IF ~load
     THEN /\ d_pc' = "branch"
          /\ UNCHANGED <<load, overwrite_existing, data>>
     ELSE /\ d_pc' = "check"
          /\ CASE cache_file.state = "missing" ->
                    /\ load' = FALSE
                    /\ UNCHANGED <<overwrite_existing, data>>
               [] cache_file.state = "truncated" ->
                    /\ load' = FALSE
                    /\ overwrite_existing' = TRUE
                    /\ data' = data
               [] cache_file.state = "ok" ->
                    /\ data' = Some(cache_file.runs)
                    /\ UNCHANGED <<load, overwrite_existing>>
  /\ UNCHANGED <<funcVars, driverVars, impVars, estVars, kwargs, n_repeat, cache_file,
                 saved, runsVars>>

\* get_run_data, lines 182-193: compare the loaded settings; a read of
\* data while it is unbound raises UnboundLocalError
GetRunDataCheck ==
  /\ d_pc = "check"
  /\ IF ~kwargs.check_loaded_settings
     THEN /\ d_pc' = "branch"
          /\ UNCHANGED <<load, data, error>>
     ELSE IF data = None
     THEN /\ d_pc' = "failed"
          /\ error' = "UnboundLocalError"
          /\ UNCHANGED <<load, data>>
     ELSE IF Val(data) = <<>>
     THEN /\ d_pc' = "failed"
          /\ error' = "IndexError"
          /\ UNCHANGED <<load, data>>
     ELSE IF cache_file.settings_match
     THEN /\ d_pc' = "branch"
          /\ UNCHANGED <<load, data, error>>
     ELSE /\ d_pc' = "branch"
          /\ data' = None
          /\ load' = FALSE
          /\ error' = error
  /\ UNCHANGED <<funcVars, driverState, impVars, estVars, kwargs, n_repeat,
                 overwrite_existing, cache_file, saved, runsVars>>

\* get_run_data, lines 194-196: call generate_runs (lines 106-107, 112-113)
GetRunDataGenerate ==
  /\ d_pc = "branch"
  /\ ~load
  /\ d_pc' = "generating"
  /\ g_pc' = IF kwargs.parallelise = FALSE THEN "serial"
             ELSE IF n_repeat = 0 THEN "collect" ELSE "submit"
  /\ futures' = <<>>
  /\ run_list' = <<>>
  /\ UNCHANGED <<funcVars, driverVars, impVars, estVars, kwargs, n_repeat, load,
                 overwrite_existing, data, cache_file, saved>>

\* generate_runs, lines 109-110: one pass of the loop without a pool; an
\* exception of generate_ns_run leaves generate_runs and get_run_data
GenerateSerial ==
  /\ g_pc = "serial"
  /\ Len(run_list) < n_repeat
  /\ \/ /\ run_list' = Append(run_list, Len(run_list) + 1)
        /\ UNCHANGED <<g_pc, d_pc, error>>
     \/ /\ g_pc' = "failed"
        /\ d_pc' = "failed"
        /\ error' = "generate_ns_run"
        /\ run_list' = run_list
  /\ UNCHANGED <<funcVars, driverState, impVars, estVars, kwargs, n_repeat, load,
                 overwrite_existing, data, cache_file, saved, futures>>

\* generate_runs, lines 114-115: pool.submit(ns.generate_ns_run, settings)
GenerateSubmit ==
  /\ g_pc = "submit"
  /\ Len(futures) < n_repeat
  /\ futures' = Append(futures,
                       [state |-> "pending", result |-> 0, yielded |-> FALSE])
  /\ g_pc' = IF Len(futures') = n_repeat THEN "collect" ELSE "submit"
  /\ UNCHANGED <<funcVars, driverVars, impVars, estVars, dataVars, run_list>>

\* a worker of the pool takes the oldest pending call
WorkerStart ==
  /\ g_pc \in {"submit", "collect"}
  /\ Cardinality({i \in DOMAIN futures : futures[i].state = "running"})
       < kwargs.max_workers
  /\ \E i \in DOMAIN futures :
       /\ futures[i].state = "pending"
       /\ \A j \in 1..(i - 1) : futures[j].state # "pending"
       /\ futures' = [futures EXCEPT ![i].state = "running"]
  /\ UNCHANGED <<funcVars, driverVars, impVars, estVars, dataVars, g_pc, run_list>>

\* a worker finishes its call of generate_ns_run: call i returns its run
\* (result i) or raises (result -i)
WorkerFinish ==
  /\ g_pc \in {"submit", "collect"}
  /\ \E i \in DOMAIN futures :
       /\ futures[i].state = "running"
       /\ \E res \in {i, -i} :
            futures' = [futures EXCEPT ![i].state = "finished",
                                       ![i].result = res]
  /\ UNCHANGED <<funcVars, driverVars, impVars, estVars, dataVars, g_pc, run_list>>

\* concurrent.futures.as_completed(futures): the futures that have
\* finished and have not been yielded yet
as_completed(futs) ==
  {i \in DOMAIN futs : futs[i].state = "finished" /\ ~futs[i].yielded}

\* generate_runs, lines 116-118: run_list.append(fut.result()); result()
\* raises the exception of the call
GenerateCollect ==
  /\ g_pc = "collect"
  /\ \E i \in as_completed(futures) :
       /\ futures' = [futures EXCEPT ![i].yielded = TRUE]
       /\ IF futures[i].result > 0
          THEN /\ run_list' = Append(run_list, futures[i].result)
               /\ UNCHANGED <<g_pc, d_pc, error>>
          ELSE /\ g_pc' = "failed"
               /\ d_pc' = "failed"
               /\ error' = "generate_ns_run"
               /\ run_list' = run_list
  /\ UNCHANGED <<funcVars, driverState, impVars, estVars, kwargs, n_repeat, load,
                 overwrite_existing, data, cache_file, saved>>

\* mutant: the pool is left without waiting for its futures
GenerateReturn_early ==
  /\ \/ g_pc = "serial" /\ Len(run_list) = n_repeat
     \/ g_pc = "collect"
  /\ g_pc' = "returned"
  /\ UNCHANGED <<funcVars, driverVars, impVars, estVars, dataVars, futures, run_list>>

\* generate_runs, lines 109, 116 and 119-121: the loop is exhausted, return
\* run_list
GenerateReturn ==
  /\ \/ g_pc = "serial" /\ Len(run_list) = n_repeat
     \/ /\ g_pc = "collect"
        /\ \A i \in DOMAIN futures : futures[i].yielded
  /\ g_pc' = "returned"
  /\ UNCHANGED <<funcVars, driverVars, impVars, estVars, dataVars, futures, run_list>>

\* get_run_data, lines 195-201: data = generate_runs(...), save, return
GetRunDataSave ==
  /\ d_pc = "generating"
  /\ g_pc = "returned"
  /\ data' = Some(run_list)
  /\ saved' = IF kwargs.save
              THEN Some([data |-> run_list,
                         overwrite_existing |-> overwrite_existing])
              ELSE saved
  /\ d_pc' = "returned"
  /\ UNCHANGED <<funcVars, driverVars, impVars, estVars, kwargs, n_repeat, load,
                 overwrite_existing, cache_file, runsVars>>

\* get_run_data, lines 194 and 201: the loaded data is returned
GetRunDataReturn ==
  /\ d_pc = "branch"
  /\ load
  /\ d_pc' = "returned"
  /\ UNCHANGED <<funcVars, driverVars, impVars, estVars, kwargs, n_repeat, load,
                 overwrite_existing, data, cache_file, saved, runsVars>>

NextWrappers ==
  \/ GetRunDataLoad
  \/ GetRunDataCheck
  \/ GetRunDataGenerate
  \/ GenerateSerial
  \/ GenerateSubmit
  \/ WorkerStart
  \/ WorkerFinish
  \/ GenerateCollect
  \/ GenerateReturn
  \/ GetRunDataSave
  \/ GetRunDataReturn

SpecWrappers == InitWrappers /\ [][NextWrappers]_vars

\* ------------------------------------------------------------ func_on_runs
\* single_run_func(run, estimator_list): a 1-dimensional array with one
\* value per estimator, different for different runs
single_run_func(rn, n_est) ==
  [e \in 1..n_est |-> rn * (MaxEstimators + 1) + e]

\* np.stack(results_list, axis=1): every element of the list is a column
stack(lst, n_est) == [e \in 1..n_est |-> [k \in DOMAIN lst |-> lst[k][e]]]

\* the run_list arguments: lists of up to MaxRepeat runs, a run held as
\* the number that tells its content
RunLists == UNION {[1..n -> 1..MaxRepeat] : n \in 0..MaxRepeat}

\* a call func_on_runs(single_run_func, run_list, estimator_list, **kwargs)
InitFuncOnRuns ==
  /\ settings \in StandardSettings
  /\ pc = "caller"
  /\ t_pc = "idle"
  /\ t_args = NoArgs
  /\ InitRest
  /\ InitImp
  /\ InitEst
  /\ InitData
  /\ f_pc = "start"
  /\ f_args \in [run_list : RunLists, estimator_list : 1..MaxEstimators,
                  parallelise : BOOLEAN, max_workers : 1..MaxWorkers,
                  results_as_list : BOOLEAN]
  /\ f_futures = <<>>
  /\ results_list = <<>>
  /\ results = None

\* func_on_runs, lines 51-59 and 68-69
FuncStart ==
  /\ f_pc = "start"
  /\ f_pc' = IF ~f_args.parallelise THEN "serial"
             ELSE IF f_args.run_list = <<>> THEN "collect" ELSE "submit"
  /\ results_list' = <<>>
  /\ f_futures' = <<>>
  /\ UNCHANGED <<driverVars, impVars, estVars, dataVars, runsVars, f_args,
                 results>>

\* func_on_runs, lines 70-71: one pass of the loop without a pool
FuncSerial ==
  /\ f_pc = "serial"
  /\ Len(results_list) < Len(f_args.run_list)
  /\ results_list' =
       Append(results_list,
              single_run_func(f_args.run_list[Len(results_list) + 1],
                              f_args.estimator_list))
  /\ UNCHANGED <<driverVars, impVars, estVars, dataVars, runsVars, f_pc,
                 f_args, f_futures, results>>

\* func_on_runs, lines 60-62: pool.submit(single_run_func, run, ...)
FuncSubmit ==
  /\ f_pc = "submit"
  /\ Len(f_futures) < Len(f_args.run_list)
  /\ f_futures' =
       Append(f_futures,
              [state |-> "pending", result |-> <<>>, yielded |-> FALSE])
  /\ f_pc' = IF Len(f_futures') = Len(f_args.run_list) THEN "collect"
             ELSE "submit"
  /\ UNCHANGED <<driverVars, impVars, estVars, dataVars, runsVars, f_args,
                 results_list, results>>

\* a worker of the pool takes the oldest pending call
FuncWorkerStart ==
  /\ f_pc \in {"submit", "collect"}
  /\ Cardinality({i \in DOMAIN f_futures : f_futures[i].state = "running"})
       < f_args.max_workers
  /\ \E i \in DOMAIN f_futures :
       /\ f_futures[i].state = "pending"
       /\ \A j \in 1..(i - 1) : f_futures[j].state # "pending"
       /\ f_futures' = [f_futures EXCEPT ![i].state = "running"]
  /\ UNCHANGED <<driverVars, impVars, estVars, dataVars, runsVars, f_pc,
                 f_args, results_list, results>>

\* a worker finishes call i: single_run_func applied to the i-th run
FuncWorkerFinish ==
  /\ f_pc \in {"submit", "collect"}
  /\ \E i \in DOMAIN f_futures :
       /\ f_futures[i].state = "running"
       /\ f_futures' =
            [f_futures EXCEPT
               ![i].state = "finished",
               ![i].result = single_run_func(f_args.run_list[i],
                                             f_args.estimator_list)]
  /\ UNCHANGED <<driverVars, impVars, estVars, dataVars, runsVars, f_pc,
                 f_args, results_list, results>>

\* func_on_runs, lines 63-65: results_list.append(fut.result()) for the
\* futures in the order as_completed yields them
FuncCollect ==
  /\ f_pc = "collect"
  /\ \E i \in as_completed(f_futures) :
       /\ f_futures' = [f_futures EXCEPT ![i].yielded = TRUE]
       /\ results_list' = Append(results_list, f_futures[i].result)
  /\ UNCHANGED <<driverVars, impVars, estVars, dataVars, runsVars, f_pc,
                 f_args, results>>

\* func_on_runs, lines 72-77: the loop is exhausted; np.stack of an empty
\* list raises ValueError
FuncReturn ==
  /\ \/ f_pc = "serial" /\ Len(results_list) = Len(f_args.run_list)
     \/ /\ f_pc = "collect"
        /\ \A i \in DOMAIN f_futures : f_futures[i].yielded
  /\ IF f_args.results_as_list
     THEN /\ results' = Some(results_list)
          /\ f_pc' = "returned"
          /\ error' = error
     ELSE IF results_list = <<>>
     THEN /\ results' = results
          /\ f_pc' = "failed"
          /\ error' = "ValueError"
     ELSE /\ results' = Some(stack(results_list, f_args.estimator_list))
          /\ f_pc' = "returned"
          /\ error' = error
  /\ UNCHANGED <<driverState, impVars, estVars, dataVars, runsVars, f_args,
                 f_futures, results_list>>

NextFuncOnRuns ==
  \/ FuncStart
  \/ FuncSerial
  \/ FuncSubmit
  \/ FuncWorkerStart
  \/ FuncWorkerFinish
  \/ FuncCollect
  \/ FuncReturn

SpecFuncOnRuns == InitFuncOnRuns /\ [][NextFuncOnRuns]_vars

\* ------------------------------------------------------------------ claims
\* a standard run has returned: from generate_ns_run, or as the initial
\* run of a dynamic run (before generate_dynamic_run touches it)
StandardReturned ==
  \/ pc = "dyn_setup"
  \/ pc = "returned" /\ settings.dynamic_goal = None

DynamicReturned == pc = "returned" /\ settings.dynamic_goal # None

\* the dead evidence accumulated over a list of dead points: the k-th dying
\* point contributes with logx_i = -k / nlive
RECURSIVE DeadEvidence(_, _, _)
DeadEvidence(dead, k, n) ==
  IF k = 0 THEN 0
  ELSE DeadEvidence(dead, k - 1, n) + DeadContribution(dead[k].logl, -k, n)

\* the loop condition of generate_standard_run, from the live points and
\* the dead points themselves
LoopCondition ==
  Continue(LogzLive(live_points, logx_i, NliveConst),
           DeadEvidence(dead_points_list, Len(dead_points_list), NliveConst),
           settings.termination_fraction)

\* C1: in generate_standard_run a death/replacement step is taken only when
\* logz_live - log(termination_fraction) > logz_dead holds for the current
\* live points and dead evidence, the loop is left only when it does not
\* hold, and once it does not hold no point is replaced or recorded again.
C1_TerminationRule ==
  [][/\ (pc = "std_loop" /\ dead_points_list' # dead_points_list)
          => LoopCondition
     /\ (pc = "std_loop" /\ pc' # "std_loop") => ~LoopCondition
     /\ (live_points' # live_points \/ dead_points_list' # dead_points_list)
          => (pc \in {"start", "std_init"} \/ LoopCondition)]_vars

C1_Witness ==
  /\ pc = "returned"
  /\ settings.dynamic_goal = None
  /\ settings.nlive_const = 2
  /\ Len(dead_points_list) >= 3
  /\ ~LoopCondition

Sorted(s) == \A i, j \in DOMAIN s : i < j => s[i] <= s[j]

\* C2: the logl array of every returned run, standard or dynamic, is
\* non-decreasing in sample index.
C2_LoglNonDecreasing ==
  (StandardReturned \/ DynamicReturned) => Sorted(run.logl)

C2_Witness ==
  /\ DynamicReturned
  /\ Len(thread_min_max) > settings.ninit
  /\ \E i \in DOMAIN run.logl :
       /\ i < Len(run.logl)
       /\ run.thread_labels[i] > settings.ninit
       /\ run.logl[i] < run.logl[i + 1]

\* C3: in the run a standard run returns, nlive_array is nlive at every
\* dead point and nlive_array[-j] = j for every j in 1..nlive.
C3_NliveArrayTail ==
  StandardReturned =>
    LET n == NliveConst
        len == Len(run.nlive_array)
    IN /\ len = Len(dead_points_list) + n
       /\ \A i \in 1..Len(dead_points_list) : run.nlive_array[i] = n
       /\ \A j \in 1..n : run.nlive_array[len + 1 - j] = j

C3_Witness ==
  /\ StandardReturned
  /\ NliveConst = 2
  /\ Len(dead_points_list) >= 2
  /\ run.nlive_array[Len(run.nlive_array)] = 1

\* C4: in the run a standard run returns, the labels present are exactly
\* 1..nlive_const, each on exactly one of the final nlive_const rows, and
\* thread_min_max has one row per label: start NaN, end the logl of that
\* label's final live point.
C4_ThreadLabels ==
  StandardReturned =>
    LET n == NliveConst
        len == Len(run.thread_labels)
        final == (len - n + 1)..len
    IN /\ Range(run.thread_labels) = 1..n
       /\ \A t \in 1..n :
            Cardinality({i \in final : run.thread_labels[i] = t}) = 1
       /\ Len(run.thread_min_max) = n
       /\ \A t \in 1..n :
            /\ run.thread_min_max[t][1] = NaN
            /\ \A i \in final :
                 run.thread_labels[i] = t
                   => run.thread_min_max[t][2] = run.logl[i]

C4_Witness ==
  /\ StandardReturned
  /\ NliveConst = 2
  /\ Len(dead_points_list) >= 1
  /\ run.thread_labels[Len(run.thread_labels)] = 1
  /\ run.thread_min_max[1][2] > run.thread_min_max[2][2]

\* number of rows of the run that carry thread label t
ThreadLen(t) ==
  Cardinality({i \in DOMAIN run.thread_labels : run.thread_labels[i] = t})

\* length of the longest thread the dynamic driver inserted (0 if none)
MaxThreadLen ==
  LET inserted == (settings.ninit + 1)..Len(thread_min_max)
  IN IF inserted = {} THEN 0
     ELSE SetMax({ThreadLen(t) : t \in inserted})

\* number of samples of the initial exploratory run
ExploratoryLen == Len(dead_points_list) + settings.ninit

\* n lies in [n_samples_max, n_samples_max + nbatch * max_thread_len]
WithinBudget(n) ==
  /\ ~FracLess(Frac(n, 1), n_samples_max)
  /\ n * n_samples_max.den
       <= n_samples_max.num
            + settings.nbatch * MaxThreadLen * n_samples_max.den

\* C5 as stated: the final number of samples of every dynamic run lies in
\* [n_samples_max, n_samples_max + nbatch * max_thread_len], whatever the
\* size of the initial exploratory run.
C5_BudgetAlways == DynamicReturned => WithinBudget(Len(run.logl))

\* C5 amended: the final number of samples is at least n_samples_max; it
\* is at most n_samples_max + nbatch * max_thread_len when the exploratory
\* run has fewer than n_samples_max samples, and otherwise no thread is
\* inserted and the run keeps exactly the exploratory samples.
C5_Budget ==
  DynamicReturned =>
    /\ ~FracLess(Frac(Len(run.logl), 1), n_samples_max)
    /\ IF FracLess(Frac(ExploratoryLen, 1), n_samples_max)
       THEN WithinBudget(Len(run.logl))
       ELSE /\ Len(run.logl) = ExploratoryLen
            /\ Len(thread_min_max) = settings.ninit

C5_Witness ==
  /\ DynamicReturned
  /\ settings.nbatch = 2
  /\ Len(thread_min_max) = settings.ninit + 2
  /\ FracLess(n_samples_max, Frac(Len(run.logl), 1))
  /\ WithinBudget(Len(run.logl))

\* the change in nlive column of the returned run
ChangeInNlive ==
  IF DynamicReturned THEN [i \in DOMAIN samples |-> samples[i].dnlive]
  ELSE [i \in DOMAIN run.logl |-> samples_array_given_run(run)[i].dnlive]

RECURSIVE StableOrder(_, _)
StableOrder(rows, idx) ==
  IF idx = {} THEN <<>>
  ELSE LET i == SetMin({m \in idx : \A j \in idx : rows[m].logl <= rows[j].logl})
       IN <<i>> \o StableOrder(rows, idx \ {i})

\* C7: the sort at the end of each dynamic iteration is stable: rows with
\* equal logl keep the relative order they had before the sort.
C7_StableSort ==
  [][(pc = "dyn_batch" /\ pc' = "dyn_loop")
       => samples' = Take(samples, StableOrder(samples, DOMAIN samples))]_vars

\* C8: for logx_start > logx_end the list generate_thread_logx builds is
\* strictly decreasing, every element is below logx_start, every element
\* but the last is above logx_end; when it returns with keep_final_point
\* the list is non-empty and exactly its last element is <= logx_end, and
\* without keep_final_point every retained element is > logx_end.
C8_ThreadLogx ==
  t_pc \in {"loop", "returned"} =>
    LET logx_end == Val(t_args.logx_end)
        n == Len(logx_list)
    IN /\ \A i \in 1..n : logx_list[i] < t_args.logx_start
       /\ \A i \in 1..(n - 1) : logx_list[i + 1] < logx_list[i]
       /\ \A i \in 1..(n - 1) : logx_list[i] > logx_end
       /\ (t_pc = "returned" /\ t_args.keep_final_point)
            => (n >= 1 /\ logx_list[n] <= logx_end)
       /\ (t_pc = "returned" /\ ~t_args.keep_final_point)
            => \A i \in 1..n : logx_list[i] > logx_end

C8_Witness ==
  /\ t_pc = "returned"
  /\ t_args.keep_final_point
  /\ Len(logx_list) >= 3
  /\ logx_list[Len(logx_list)] < Val(t_args.logx_end)

\* C9 as stated: generate_single_thread never returns to its caller when
\* the trajectory has zero retained points (it fails with EmptyThread).
C9_EmptyThreadFails == t_pc = "returned" => logx_list # <<>>

\* C9 amended: when the trajectory has zero retained points (only without
\* keep_final_point, the first draw being at or below logx_end)
\* generate_single_thread raises nothing and returns None; otherwise it
\* returns one row per retained point.
C9_EmptyThreadIsNone ==
  t_pc = "returned" =>
    IF logx_list = <<>>
    THEN /\ thread = None
         /\ error = "none"
         /\ pc # "failed"
         /\ ~t_args.keep_final_point
    ELSE /\ thread # None
         /\ Len(Val(thread)) = Len(logx_list)

C9_Witness ==
  /\ t_pc = "returned"
  /\ ~t_args.keep_final_point
  /\ logx_list = <<>>
  /\ thread = None
  /\ error = "none"

\* logx_end after settings.logx_terminate has been substituted for None
EffectiveLogxEnd ==
  IF t_args.logx_end = None THEN settings.logx_terminate ELSE t_args.logx_end

\* C10: a call of generate_single_thread with logx_start <= logx_end
\* (settings.logx_terminate standing in for a logx_end of None) fails on
\* its assertion with no point drawn and nothing returned.
C10_InvalidInterval ==
  (/\ t_pc \notin {"idle", "call"}
   /\ EffectiveLogxEnd # None
   /\ t_args.logx_start <= Val(EffectiveLogxEnd))
    => /\ t_pc = "failed"
       /\ pc = "failed"
       /\ error = "AssertionError: generate_single_thread"
       /\ logx_list = <<>>
       /\ thread = None

C10_Witness ==
  /\ t_pc = "failed"
  /\ error = "AssertionError: generate_single_thread"
  /\ settings.logx_terminate # None
  /\ t_args.logx_start = Val(settings.logx_terminate)
  /\ t_args.logx_end = settings.logx_terminate
  /\ logx_list = <<>>

\* settings.dynamic_fraction lies in the open interval (0, 1)
ValidFraction ==
  /\ FracLess(Frac(0, 1), settings.dynamic_fraction)
  /\ FracLess(settings.dynamic_fraction, Frac(1, 1))

\* settings.dynamic_goal lies in [0, 1]
ValidGoal ==
  /\ ~FracLess(Frac(1, 1), Val(settings.dynamic_goal))
  /\ ~FracLess(Val(settings.dynamic_goal), Frac(0, 1))

\* C11: a dynamic run requested with dynamic_fraction outside (0, 1) never
\* returns a run, whatever n_samples_max and the size of the exploratory
\* run are (also when the exploratory run already reaches n_samples_max).
C11_InvalidFractionFails ==
  (settings.dynamic_goal # None /\ ~ValidFraction) => pc # "returned"

\* C12: generate_ns_run performs a standard run exactly when
\* settings.dynamic_goal is None and a dynamic run otherwise; with
\* dynamic_goal outside [0, 1] the dynamic run fails before the exploratory
\* run begins: no live point sampled, no thread generated, no run returned.
C12_Dispatch ==
  /\ pc \in {"std_init", "std_loop"}
       => (is_dynamic_initial_run <=> settings.dynamic_goal # None)
  /\ pc \in {"dyn_setup", "dyn_loop", "dyn_batch", "dyn_thread"}
       => (settings.dynamic_goal # None /\ is_dynamic_initial_run)
  /\ (pc = "returned" /\ settings.dynamic_goal = None)
       => (~is_dynamic_initial_run /\ samples = <<>> /\ thread_min_max = <<>>)
  /\ (pc # "start" /\ settings.dynamic_goal # None /\ ~ValidGoal)
       => /\ pc = "failed"
          /\ error = "AssertionError"
          /\ live_points = <<>>
          /\ dead_points_list = <<>>
          /\ samples = <<>>
          /\ t_pc = "idle"
          /\ logx_list = <<>>
          /\ run = NoRun

C12_Witness ==
  /\ pc = "failed"
  /\ error = "AssertionError"
  /\ settings.dynamic_goal = Some(Frac(3, 2))
  /\ live_points = <<>>
  /\ run = NoRun

\* a logl key is ambiguous when it matches no row or more than one row
Ambiguous(smp, logl) == Cardinality(Where(smp, logl)) # 1

\* the rows whose importance exceeds settings.dynamic_fraction
HighImportance(importance) ==
  {i \in DOMAIN samples : FracLess(settings.dynamic_fraction, importance[i])}

\* the keys min_max_importance looks up for an importance vector
LookedUp(importance) ==
  LET H == HighImportance(importance)
  IN {samples[SetMin(H) - 1].logl : x \in {y \in {1} : SetMin(H) # 1}}
       \cup {samples[SetMax(H) + 1].logl :
               x \in {y \in {1} : SetMax(H) # Len(samples)}}

\* the driver is about to call point_importance and min_max_importance
\* (line 196 holds, within the bound on the samples)
AtImportanceCall ==
  /\ pc = "dyn_loop"
  /\ FracLess(Frac(n_samples, 1), n_samples_max)
  /\ n_samples <= MaxSamples

C18_ReplacementFrame ==
  [][(pc = "std_loop" /\ dead_points_list' # dead_points_list) =>
       \E ind \in DOMAIN live_points :
         /\ \A j \in DOMAIN live_points :
              live_points[ind].logl <= live_points[j].logl
         /\ \A j \in 1..(ind - 1) :
              live_points[j].logl > live_points[ind].logl
         /\ dead_points_list' = dead_points_list \o <<live_points[ind]>>
         /\ DOMAIN live_points' = DOMAIN live_points
         /\ \A j \in DOMAIN live_points \ {ind} :
              live_points'[j] = live_points[j]
         /\ live_points'[ind].label = live_points[ind].label
         /\ live_points'[ind].logx < live_points[ind].logx
         /\ live_points'[ind].r = r_given_logx(live_points'[ind].logx)
         /\ live_points'[ind].logl = logl_given_r(live_points'[ind].r)]_vars

C18_Witness ==
  /\ pc = "std_loop"
  /\ NliveConst = 2
  /\ Len(dead_points_list) >= 2
  /\ Last(dead_points_list).label = 1
  /\ Last(dead_points_list).logl = live_points[2].logl
  /\ live_points[1].logx < Last(dead_points_list).logx
  /\ live_points[1].logl > Last(dead_points_list).logl

\* C19: at every loop check of generate_standard_run logx_i = -k / nlive
\* with k the number of dead points recorded (logx_i is held as
\* nlive * logx_i); the k-th dying point adds
\* exp(logl_dying + logtrapz - k / nlive) to the dead evidence, the pointer
\* being decremented first; logz_dead never decreases.
C19_PriorVolumePointer ==
  /\ []((pc = "std_loop") =>
          /\ logx_i = -Len(dead_points_list)
          /\ logz_dead = DeadEvidence(dead_points_list,
                                      Len(dead_points_list), NliveConst))
  /\ [][/\ logz_dead' >= logz_dead
        /\ (pc = "std_loop" /\ dead_points_list' # dead_points_list) =>
             /\ Len(dead_points_list') = Len(dead_points_list) + 1
             /\ logx_i' = -Len(dead_points_list')
             /\ logz_dead' - logz_dead =
                  Exp(Last(dead_points_list').logl) * Trapz(NliveConst)
                    * ExpLogxI(NliveConst, Len(dead_points_list'))]_vars

C19_Witness ==
  /\ pc = "std_loop"
  /\ NliveConst = 2
  /\ Len(dead_points_list) = 3
  /\ logx_i = -3
  /\ logz_dead > DeadContribution(Last(dead_points_list).logl, -3, 2)

\* what min_max_importance is to return for an importance vector
MinMaxExpected(importance) ==
  LET H == HighImportance(importance)
      before == SetMin(H) - 1
      after == SetMax(H) + 1
      last_index == Len(samples)
  IN [logl_min_max |->
        <<IF before = 0 THEN NaN ELSE Some(samples[before].logl),
          IF after > last_index THEN samples[last_index].logl
          ELSE samples[after].logl>>,
      logx_min_max |->
        <<IF before = 0 THEN 0 ELSE samples[before].logx,
          IF after > last_index THEN samples[last_index].logx
          ELSE samples[after].logx>>]

\* C20: with H the indices whose importance exceeds dynamic_fraction,
\* min_max_importance returns logl_min = NaN, logx_min = 0 when H[0] = 0 and
\* otherwise the logl and logx of row H[0]-1; logl_max, logx_max are those
\* of the last row when H[-1] is the last index and otherwise those of row
\* H[-1]+1. It does not modify the samples matrix.
C20_MinMaxImportance ==
  /\ [](AtImportanceCall =>
          \A importance \in point_importance(samples) :
            LET res == min_max_importance(importance, samples, settings)
            IN res.err = "none" =>
                 /\ res.logl_min_max = MinMaxExpected(importance).logl_min_max
                 /\ res.logx_min_max = MinMaxExpected(importance).logx_min_max)
  /\ [][(pc = "dyn_loop" /\ pc' = "dyn_batch") =>
          /\ samples' = samples
          /\ \E importance \in point_importance(samples) :
               /\ HighImportance(importance) # {}
               /\ logl_min_max' = MinMaxExpected(importance).logl_min_max
               /\ logx_min_max' = MinMaxExpected(importance).logx_min_max]_vars

C20_Witness ==
  /\ pc = "dyn_batch"
  /\ batch = 0
  /\ Len(samples) >= 3
  /\ logl_min_max[1] = NaN
  /\ logx_min_max[1] = 0
  /\ logl_min_max[2] = samples[2].logl
  /\ logx_min_max[2] = samples[2].logx
  /\ samples[2].logl < Last(samples).logl

\* the weight at and after index i
TailSum(w, i) == SeqSum(SubSeq(w, i, Len(w)))

\* C14: z_importance(w, nlive) with exact=False returns for every i the
\* tail weight t[i] = sum of w[j] over j >= i, the point's own weight
\* included, divided by nlive[i] and rescaled to a maximum of 1; and
\* max(cumsum(w)) - cumsum(w) equals that tail sum for every i.
C14_TailWeight ==
  imp_pc = "returned" =>
    LET t == [i \in DOMAIN w_relative |-> TailSum(w_relative, i)]
        per_live == [i \in DOMAIN w_relative |-> Frac(t[i], nlive_array[i])]
        top == FracMax(per_live)
    IN \A i \in DOMAIN w_relative :
         /\ SetMax(Range(cumsum(w_relative))) - cumsum(w_relative)[i] = t[i]
         /\ FracEq(imp_z[i], Frac(per_live[i].num * top.den,
                                  per_live[i].den * top.num))

\* the estimator has an analytical method that accepts the settings
Available(est, stg) == analytical(est, stg).exc = "none"

\* C15: get_true_estimator_values never fails because an estimator cannot
\* give an analytic reference: it returns a one-row table with one column
\* per estimator, in the order of the input list, holding
\* est.analytical(settings) where that is available and NaN where the
\* estimator has no analytical method or the method rejects the settings.
C15_TrueValuesTable ==
  /\ est_pc # "failed"
  /\ est_pc = "returned" =>
       /\ Len(df) = Len(estimator_list)
       /\ \A i \in DOMAIN estimator_list :
            /\ df[i][1] = name(estimator_list[i])
            /\ df[i][2] =
                 IF Available(estimator_list[i], settings)
                 THEN analytical(estimator_list[i], settings).value
                 ELSE NaN

C15_Witness ==
  /\ est_pc = "returned"
  /\ Len(df) = 2
  /\ estimator_list[1].kind = "paramCredEstimator"
  /\ estimator_list[1].probability = 9
  /\ settings.likelihood # "gaussian"
  /\ df[1] = <<"theta1c_0.9", NaN>>
  /\ estimator_list[2].kind = "rMeanEstimator"
  /\ df[2] = <<"r", <<"0", 0>>>>

\* C16: generate_runs returns a list of exactly n_repeat runs, without and
\* with the pool: under every completion order each submitted call gives
\* exactly one element, none lost and none duplicated, and with the pool
\* the function returns only after all n_repeat futures have completed.
C16_AllRunsReturned ==
  g_pc = "returned" =>
    /\ Len(run_list) = n_repeat
    /\ \A k \in 1..n_repeat :
         Cardinality({i \in DOMAIN run_list : run_list[i] = k}) = 1
    /\ kwargs.parallelise =>
         /\ Len(futures) = n_repeat
         /\ \A i \in DOMAIN futures : futures[i].state = "finished"

C16_Witness ==
  /\ g_pc = "returned"
  /\ kwargs.parallelise
  /\ n_repeat = 2
  /\ run_list = <<2, 1>>

\* C17: get_run_data with load=True and a missing cache file generates
\* n_repeat new runs, saves them when save=True and returns them, for
\* either value of check_loaded_settings; with load=True and a successful
\* load (the settings matching when checked) it returns the loaded data
\* and generates and saves nothing.
C17_LoadFallback ==
  /\ (kwargs.load /\ cache_file.state = "missing") =>
       /\ d_pc = "failed" => error = "generate_ns_run"
       /\ d_pc = "returned" =>
            /\ g_pc = "returned"
            /\ Len(run_list) = n_repeat
            /\ data = Some(run_list)
            /\ kwargs.save => (saved # None /\ Val(saved).data = run_list)
            /\ ~kwargs.save => saved = None
  /\ (/\ kwargs.load
      /\ cache_file.state = "ok"
      /\ kwargs.check_loaded_settings =>
           (cache_file.runs # <<>> /\ cache_file.settings_match)) =>
       /\ d_pc # "failed"
       /\ d_pc = "returned" =>
            /\ data = Some(cache_file.runs)
            /\ g_pc = "idle"
            /\ futures = <<>>
            /\ run_list = <<>>
            /\ saved = None

\* the step of the dynamic driver that inserts a thread (lines 209-218)
ThreadInserted == pc = "dyn_thread" /\ pc' = "dyn_batch"

\* the rows of samples that the step has changed
ModifiedRows == {i \in DOMAIN samples : samples'[i] # samples[i]}

\* C21: each thread inserted by the dynamic driver increments the change in
\* nlive of exactly one existing row, the one with logl = logl_min, by
\* exactly 1 when logl_min is not NaN and modifies no existing row when it
\* is NaN; the thread's rows are appended with change in nlive -1 on the
\* last row and 0 elsewhere, and thread_min_max gains the one row
\* (logl_min, logl of the thread's last row).
C21_ThreadInsertion ==
  [][ThreadInserted =>
       LET n == Len(samples)
           m == Len(samples')
       IN /\ m > n
          /\ IF logl_min_max[1] = NaN
             THEN ModifiedRows = {}
             ELSE \E i \in DOMAIN samples :
                    /\ ModifiedRows = {i}
                    /\ samples[i].logl = Val(logl_min_max[1])
                    /\ samples'[i] =
                         [samples[i] EXCEPT !.dnlive = samples[i].dnlive + 1]
          /\ SubSeq(samples', n + 1, m) = Val(thread)
          /\ \A j \in (n + 1)..m :
               /\ samples'[j].dnlive = IF j = m THEN -1 ELSE 0
               /\ samples'[j].label = Len(thread_min_max) + 1
          /\ thread_min_max' =
               Append(thread_min_max, <<logl_min_max[1], samples'[m].logl>>)
     ]_vars

\* a thread of two rows has been inserted after a birth was recorded on
\* an existing row, and a thread born from the whole prior as well
C21_Witness ==
  /\ pc = "dyn_batch"
  /\ Len(thread_min_max) >= settings.ninit + 2
  /\ \E t \in DOMAIN thread_min_max :
       /\ t > settings.ninit
       /\ thread_min_max[t][1] # NaN
       /\ Cardinality({i \in DOMAIN samples : samples[i].label = t}) >= 2
       /\ \E i \in DOMAIN samples :
            /\ samples[i].logl = Val(thread_min_max[t][1])
            /\ samples[i].dnlive >= 0
  /\ \E t \in DOMAIN thread_min_max :
       t > settings.ninit /\ thread_min_max[t][1] = NaN

\* what func_on_runs returns when the k-th result belongs to run_list[k]
InRunListOrder ==
  LET expected == [k \in DOMAIN f_args.run_list |->
                     single_run_func(f_args.run_list[k],
                                     f_args.estimator_list)]
  IN IF f_args.results_as_list THEN expected
     ELSE stack(expected, f_args.estimator_list)

\* C22: func_on_runs returns its results in run_list order, with
\* parallelise=True under every completion order of the workers as with
\* parallelise=False: the k-th element, or the k-th column of the stacked
\* array, is single_run_func applied to run_list[k].
C22_RunListOrder ==
  (f_pc = "returned") => (results = Some(InRunListOrder))

\* the rows of samples that min_max_importance last read: the batch loop
\* appends behind them and n_samples is updated after the sort (line 221)
RowsAtImportanceCall == SubSeq(samples, 1, n_samples)

\* all logl values differ, logx strictly decreasing with logl
DistinctLogl(smp) ==
  \A i, j \in DOMAIN smp :
    i < j => (smp[i].logl < smp[j].logl /\ smp[i].logx > smp[j].logx)

\* C23: when all logl values of the samples are distinct, every interval
\* that min_max_importance hands to the batch loop has logx_min > logx_max,
\* so no call of generate_single_thread by the dynamic driver fails on its
\* interval assertion and every thread it returns has at least one row.
C23_ValidIntervals ==
  /\ (pc \in {"dyn_batch", "dyn_thread"}
        /\ DistinctLogl(RowsAtImportanceCall))
       => /\ logx_min_max[1] > logx_min_max[2]
          /\ t_pc # "failed"
          /\ (t_pc = "returned")
               => (thread # None /\ Len(Val(thread)) >= 1)
  /\ (pc = "failed" /\ settings.dynamic_goal # None
        /\ DistinctLogl(RowsAtImportanceCall))
       => error # "AssertionError: generate_single_thread"

\* a thread was made over the interval between the last two samples, the
\* narrowest there is, in a run whose logl values are all distinct
C23_Witness ==
  /\ pc = "dyn_batch"
  /\ batch >= 1
  /\ n_samples >= 3
  /\ DistinctLogl(RowsAtImportanceCall)
  /\ logx_min_max[1] = samples[n_samples - 1].logx
  /\ logx_min_max[2] = samples[n_samples].logx
  /\ Len(samples) > n_samples

\* the rows that carry thread label t
RowsOfThread(labels, t) == {i \in DOMAIN labels : labels[i] = t}

\* the labels present are exactly 1..T, T the number of rows of
\* thread_min_max, and row t of thread_min_max (row t-1 from 0) ends at the
\* logl of the last, highest, row of the thread labelled t
LabelsDense(labels, logl, tmm) ==
  /\ Range(labels) = 1..Len(tmm)
  /\ \A t \in DOMAIN tmm :
       /\ \E i \in RowsOfThread(labels, t) : tmm[t][2] = logl[i]
       /\ \A i \in RowsOfThread(labels, t) : logl[i] <= tmm[t][2]

\* generate_dynamic_run is between the exploratory run and its return
InDynamicLoop == pc \in {"dyn_loop", "dyn_batch", "dyn_thread"}

\* C24: at every point of a dynamic run the thread labels are dense and one
\* per thread: the labels in the samples are exactly 1..T with T the number
\* of rows of thread_min_max, row t-1 of thread_min_max describes the
\* thread labelled t, each new thread is given the label T + 1, and the
\* threads of the exploratory run keep their labels and their rows.
C24_DenseLabels ==
  /\ InDynamicLoop =>
       /\ LabelsDense([i \in DOMAIN samples |-> samples[i].label],
                      [i \in DOMAIN samples |-> samples[i].logl],
                      thread_min_max)
       /\ Len(thread_min_max) >= settings.ninit
       /\ \A t \in 1..settings.ninit :
            /\ thread_min_max[t] = run.thread_min_max[t]
            /\ Cardinality(RowsOfThread(
                  [i \in DOMAIN samples |-> samples[i].label], t))
                 = Cardinality(RowsOfThread(run.thread_labels, t))
  /\ (pc = "dyn_thread") =>
       /\ t_args.thread_label = Len(thread_min_max) + 1
       /\ (t_pc = "returned" /\ thread # None) =>
            \A i \in DOMAIN Val(thread) :
              Val(thread)[i].label = Len(thread_min_max) + 1
  /\ DynamicReturned =>
       LabelsDense(run.thread_labels, run.logl, run.thread_min_max)

\* a dynamic run has returned with two threads added to its exploratory
\* run, one of them of two rows or more
C24_Witness ==
  /\ DynamicReturned
  /\ Len(run.thread_min_max) >= settings.ninit + 2
  /\ \E t \in (settings.ninit + 1)..Len(run.thread_min_max) :
       Cardinality(RowsOfThread(run.thread_labels, t)) >= 2

\* the sum of the change in nlive column over all rows
NetChange(smp) == SeqSum([i \in DOMAIN smp |-> smp[i].dnlive])

\* C25: after the exploratory run and after every completed insertion of a
\* thread, births and deaths balance: the change in nlive column summed over
\* all rows, plus the number of threads whose thread_min_max start is NaN,
\* is 0.
C25_BirthsAndDeaths ==
  (InDynamicLoop \/ DynamicReturned) =>
    NetChange(samples) + NlivePrior(thread_min_max) = 0

\* the balance after a thread born from the whole prior and a thread born
\* at an existing row, the second one of two rows or more
C25_Witness ==
  /\ pc = "dyn_batch"
  /\ batch >= 1
  /\ NlivePrior(thread_min_max) > settings.ninit
  /\ \E t \in DOMAIN thread_min_max :
       /\ thread_min_max[t][1] # NaN
       /\ Cardinality({i \in DOMAIN samples : samples[i].label = t}) >= 2
  /\ \E i \in DOMAIN samples : samples[i].dnlive = 1

====
